---- MODULE Spec2Model ----
(***************************************************************************)
(* A model of the SBCL runtime's allocation support code:                  *)
(*   src/src/runtime/alloc.c          static-space CAS bump allocator,     *)
(*                                    locked code-object allocator,        *)
(*                                    allocation profiler                  *)
(*   src/src/runtime/gencgc-private.h condensed scan-start codec and the   *)
(*                                    contiguous-block boundary predicates *)
(*   src/src/runtime/gc-internal.h    gc_assert / gc_abort, page flags     *)
(*                                                                         *)
(* Machine integers are scaled down but keep a width: every pointer,       *)
(* `int' and `unsigned' value is reduced modulo a power of two.            *)
(***************************************************************************)
EXTENDS Integers, Sequences, FiniteSets, TLC

VARIABLES
    ndebug,                     \* build: NDEBUG defined, gc_assert compiled out
    require_gc_inhibit,         \* build: REQUIRE_GC_INHIBIT, alloc.c:58-62
    lost,                       \* lose() was called: the process is gone
    static_space_free_pointer,  \* alloc.c:25 the static-space frontier
    bump,                       \* per thread: the frame of atomic_bump_static_space_free_ptr
    returned,                   \* history: the calls that returned, in return order
    page_table,                 \* gencgc page table, one entry more than there are pages
    next_free_page,             \* the allocation cursor: one past the last page in use
    written,                    \* history: per page, the offset last given to
                                \* set_page_scan_start_offset, or NotWritten
    gc_inhibit,                 \* per thread: the thread-local GC_INHIBIT is not NIL
    code_allocator_lock,        \* alloc.c:51 the holder of the mutex, or Unlocked
    code_region,                \* the open code region, EmptyRegion when closed
    mem,                        \* the words of the heap that were stored to
    wild,                       \* a store went to memory that is not the heap
    call,                       \* per thread: the frame of alloc_code_object or
                                \* close_code_region
    objects,                    \* history: the code objects returned, in return order
    closed,                     \* history: the calls of close_code_region, and what
                                \* the last one left if nothing was allocated since
    alloc_profiling,            \* alloc.c:43 the profiler's enabled flag
    alloc_profile_buffer,       \* alloc.c:40 the address of the array of counters
    profile_buffer_size,        \* alloc.c:41 its size in bytes
    alloc_profile_data,         \* alloc.c:42 the metadata: the length of the simple
                                \* vector, or NotAVector
    max_alloc_point_counters,   \* alloc.c:106
    profile_data,               \* per thread: th->profile_data
    alloc_profiler_lock,        \* alloc.c:52 the holder of the mutex, or Unlocked
    prof,                       \* per thread: the position in allocation_profiler_start
                                \* or allocation_profiler_stop
    os_memory,                  \* the blocks os_allocate gave out that were not given
                                \* back: address to size
    prof_log                    \* history: the last three calls of start and stop, in
                                \* the order of their locked sections

buildVars == <<ndebug, require_gc_inhibit>>
staticVars == <<static_space_free_pointer, bump, returned>>
pageVars == <<page_table, next_free_page, written>>
codeVars == <<gc_inhibit, code_allocator_lock, code_region, mem, wild, call,
              objects, closed>>
profVars == <<alloc_profiling, alloc_profile_buffer, profile_buffer_size,
              alloc_profile_data, max_alloc_point_counters, profile_data,
              alloc_profiler_lock, prof, os_memory, prof_log>>
vars == <<ndebug, require_gc_inhibit, lost, static_space_free_pointer, bump,
          returned, page_table, next_free_page, written, gc_inhibit,
          code_allocator_lock, code_region, mem, wild, call, objects, closed,
          alloc_profiling, alloc_profile_buffer, profile_buffer_size,
          alloc_profile_data, max_alloc_point_counters, profile_data,
          alloc_profiler_lock, prof, os_memory, prof_log>>

\* what the static-space allocator never touches
notStatic == <<buildVars, pageVars, codeVars, profVars>>
\* what the page-table operations never touch
notPage == <<buildVars, staticVars, codeVars, profVars>>
\* what the code allocator never touches
notCode == <<buildVars, staticVars, profVars>>
\* what the allocation profiler never touches
notProf == <<buildVars, staticVars, pageVars, codeVars>>

----------------------------------------------------------------------------
(* Bounds of the model. *)
NThreads == 2
MaxCalls == 3
NPages == 4
MaxSets == 2
MaxAllocs == 2
MaxCloses == 2
\* pages of the long region whose scan-start entries form a chain
ChainPages == 33
\* calls of the four locking operations, all threads together
MaxOps == 3

Threads == 1..NThreads

----------------------------------------------------------------------------
(* Machine arithmetic. *)
RECURSIVE Pow2(_)
Pow2(n) == IF n = 0 THEN 1 ELSE 2 * Pow2(n - 1)

\* Width of a pointer and of `int' in the static-space model.  Both are the
\* machine word of a 32-bit build, scaled from 32 bits.
AddrBits == 15
IntBits == 15

AddrSpace == Pow2(AddrBits)
IntMin == 0 - Pow2(IntBits - 1)
IntMax == Pow2(IntBits - 1) - 1

\* x & LOWTAG_MASK on a two's complement int
LOWTAG_MASK == 15
LowtagBits(n) == n % (LOWTAG_MASK + 1)

\* (char*)p + n : pointer addition wraps at the width of a pointer
PtrAdd(p, n) == (p + n) % AddrSpace

\* The static space lies in the lower half of the address space, as on every
\* supported platform, so STATIC_SPACE_END + INT_MAX does not wrap.
STATIC_SPACE_START == 4096
STATIC_SPACE_END == 12288

\* The byte counts callers pass (an `int'): page-sized, landing exactly on the
\* end, small, zero, not lowtag-aligned, negative, negative past address 0.
NBytes == {4096, 8192, 16, 0, 8, -16, -8192}

----------------------------------------------------------------------------
(* lose(): the process terminates; no thread takes another step. *)
Running == ~lost

\* gc_assert(ex): gc_abort() -> lose() unless NDEBUG compiles it out
gc_assert_fails(ex) == ~ndebug /\ ~ex

----------------------------------------------------------------------------
(* atomic_bump_static_space_free_ptr, alloc.c:22-35 *)

IdleFrame == [pc |-> "idle", nbytes |-> 0, claimed_ptr |-> 0, new |-> 0, retries |-> 0]

Started == Len(returned) + Cardinality({t \in Threads : bump[t].pc # "idle"})

\* the return statement: the frame is popped, the result recorded
Return(t, ptr) ==
    /\ bump' = [bump EXCEPT ![t] = IdleFrame]
    /\ returned' = Append(returned, [nbytes |-> bump[t].nbytes, ptr |-> ptr,
                                     at |-> static_space_free_pointer,
                                     retries |-> bump[t].retries])

\* alloc.c:24 without the assertion
BumpCallUnchecked(t, nbytes) ==
    /\ Running
    /\ UNCHANGED notStatic
    /\ bump[t].pc = "idle"
    /\ Started < MaxCalls
    /\ bump' = [bump EXCEPT ![t] = [pc |-> "check", nbytes |-> nbytes,
                                    claimed_ptr |-> static_space_free_pointer,
                                    new |-> 0, retries |-> 0]]
    /\ UNCHANGED <<lost, static_space_free_pointer, returned>>

\* alloc.c:24-25  gc_assert((nbytes & LOWTAG_MASK) == 0);
\*                claimed_ptr = static_space_free_pointer;
BumpCall(t, nbytes) ==
    /\ Running
    /\ UNCHANGED notStatic
    /\ bump[t].pc = "idle"
    /\ Started < MaxCalls
    /\ IF gc_assert_fails(LowtagBits(nbytes) = 0)
       THEN /\ lost' = TRUE
            /\ bump' = [bump EXCEPT ![t] = [pc |-> "lost", nbytes |-> nbytes,
                                            claimed_ptr |-> 0, new |-> 0, retries |-> 0]]
            /\ UNCHANGED <<static_space_free_pointer, returned>>
       ELSE /\ bump' = [bump EXCEPT ![t] = [pc |-> "check", nbytes |-> nbytes,
                                            claimed_ptr |-> static_space_free_pointer,
                                            new |-> 0, retries |-> 0]]
            /\ UNCHANGED <<lost, static_space_free_pointer, returned>>

\* alloc.c:29 without `new < claimed_ptr': a negative size is served
BumpCheckNoWrapTest(t) ==
    /\ Running
    /\ UNCHANGED notStatic
    /\ bump[t].pc = "check"
    /\ LET new == PtrAdd(bump[t].claimed_ptr, bump[t].nbytes)
       IN  IF new > STATIC_SPACE_END
           THEN Return(t, 0)
           ELSE /\ bump' = [bump EXCEPT ![t].pc = "cas", ![t].new = new]
                /\ UNCHANGED returned
    /\ UNCHANGED <<lost, static_space_free_pointer>>

\* alloc.c:29 with >= for > : a claim ending exactly at the end is refused
BumpCheckOffByOne(t) ==
    /\ Running
    /\ UNCHANGED notStatic
    /\ bump[t].pc = "check"
    /\ LET new == PtrAdd(bump[t].claimed_ptr, bump[t].nbytes)
       IN  IF new >= STATIC_SPACE_END \/ new < bump[t].claimed_ptr
           THEN Return(t, 0)
           ELSE /\ bump' = [bump EXCEPT ![t].pc = "cas", ![t].new = new]
                /\ UNCHANGED returned
    /\ UNCHANGED <<lost, static_space_free_pointer>>

\* alloc.c:27-29  new = (char*)claimed_ptr + nbytes;
\*                if (new > STATIC_SPACE_END || new < claimed_ptr) return 0;
BumpCheck(t) ==
    /\ Running
    /\ UNCHANGED notStatic
    /\ bump[t].pc = "check"
    /\ LET new == PtrAdd(bump[t].claimed_ptr, bump[t].nbytes)
       IN  IF new > STATIC_SPACE_END \/ new < bump[t].claimed_ptr
           THEN Return(t, 0)
           ELSE /\ bump' = [bump EXCEPT ![t].pc = "cas", ![t].new = new]
                /\ UNCHANGED returned
    /\ UNCHANGED <<lost, static_space_free_pointer>>

\* alloc.c:30 as a plain store: the frontier is written without comparing
BumpCASBlindStore(t) ==
    /\ Running
    /\ UNCHANGED notStatic
    /\ bump[t].pc = "cas"
    /\ static_space_free_pointer' = bump[t].new
    /\ Return(t, bump[t].claimed_ptr)
    /\ UNCHANGED lost

\* alloc.c:30 storing even when the comparison fails, then retrying
BumpCASPartial(t) ==
    /\ Running
    /\ UNCHANGED notStatic
    /\ bump[t].pc = "cas"
    /\ static_space_free_pointer' = bump[t].new
    /\ IF static_space_free_pointer = bump[t].claimed_ptr
       THEN Return(t, bump[t].claimed_ptr)
       ELSE /\ bump' = [bump EXCEPT ![t].pc = "check",
                                    ![t].claimed_ptr = static_space_free_pointer,
                                    ![t].retries = @ + 1]
            /\ UNCHANGED returned
    /\ UNCHANGED lost

\* alloc.c:33 left out: after a failed comparison the loop tries again with
\* the frontier it read at first
BumpCASStale(t) ==
    /\ Running
    /\ UNCHANGED notStatic
    /\ bump[t].pc = "cas"
    /\ LET actual_old == static_space_free_pointer
       IN  IF actual_old = bump[t].claimed_ptr
           THEN /\ static_space_free_pointer' = bump[t].new
                /\ Return(t, bump[t].claimed_ptr)
           ELSE /\ bump' = [bump EXCEPT ![t].pc = "check"]
                /\ UNCHANGED <<static_space_free_pointer, returned>>
    /\ UNCHANGED lost

\* alloc.c:30-33  actual_old = __sync_val_compare_and_swap(&free, claimed_ptr, new);
\*                if (actual_old == claimed_ptr) return claimed_ptr;
\*                claimed_ptr = actual_old;
BumpCAS(t) ==
    /\ Running
    /\ UNCHANGED notStatic
    /\ bump[t].pc = "cas"
    /\ LET actual_old == static_space_free_pointer
       IN  IF actual_old = bump[t].claimed_ptr
           THEN /\ static_space_free_pointer' = bump[t].new
                /\ Return(t, bump[t].claimed_ptr)
           ELSE /\ bump' = [bump EXCEPT ![t].pc = "check",
                                        ![t].claimed_ptr = actual_old,
                                        ![t].retries = @ + 1]
                /\ UNCHANGED <<static_space_free_pointer, returned>>
    /\ UNCHANGED lost

----------------------------------------------------------------------------
(* The page table, gencgc-private.h.  A heap of NPages pages; the table has *)
(* one entry more, "there is *always* a next page in the page table".       *)

WORD_SHIFT == 3
GENCGC_CARD_SHIFT == 7
N_WORD_BYTES == Pow2(WORD_SHIFT)
GENCGC_PAGE_BYTES == Pow2(GENCGC_CARD_SHIFT)
GENCGC_PAGE_WORDS == GENCGC_PAGE_BYTES \div N_WORD_BYTES

\* unsigned int scan_start_offset_, scaled from 32 bits; SCAN_START_OFS_MAX
\* is UINT_MAX, the largest value of the field
ScanStartBits == 5
SCAN_START_OFS_MAX == Pow2(ScanStartBits) - 1

\* os_vm_size_t, scaled from 64 bits
WordBits == 16
ShiftRight(x, k) == x \div Pow2(k)
ShiftLeft(x, k) == (x * Pow2(k)) % Pow2(WordBits)

FREE_PAGE_FLAG == 0
BOXED_PAGE_FLAG == 1
UNBOXED_PAGE_FLAG == 2
OPEN_REGION_PAGE_FLAG == 8
CODE_PAGE_TYPE == BOXED_PAGE_FLAG + UNBOXED_PAGE_FLAG

Pages == 0..(NPages - 1)
Entries == 0..NPages
Generations == {0, 1}

FreePage == [type |-> FREE_PAGE_FLAG, words_used_ |-> 0, scan_start_offset_ |-> 0, gen |-> 0]
NotWritten == -1

page_words_used(pt, index) == pt[index].words_used_
page_bytes_used(pt, index) == ShiftLeft(pt[index].words_used_, WORD_SHIFT)

IS_ALIGNED(offset, n) == offset % n = 0

\* gencgc-private.h:51-52
ScanStartLsb(offset) ==
    IF offset # 0 /\ IS_ALIGNED(offset, GENCGC_PAGE_BYTES) THEN 1 ELSE 0

BitOr1(x, lsb) == IF lsb = 1 /\ x % 2 = 0 THEN x + 1 ELSE x

\* gencgc-private.h:52 counting whole pages and leaving out the scale bit
ScanStartScaledNoBit(offset) ==
    ShiftRight(offset, IF ScanStartLsb(offset) = 1
                       THEN GENCGC_CARD_SHIFT ELSE WORD_SHIFT)

\* gencgc-private.h:52
ScanStartScaled(offset) ==
    BitOr1(ShiftRight(offset, IF ScanStartLsb(offset) = 1
                              THEN GENCGC_CARD_SHIFT - 1 ELSE WORD_SHIFT),
           ScanStartLsb(offset))

\* gencgc-private.h:56  gc_assert(lsb == 1) when scaled > SCAN_START_OFS_MAX
ScanStartAsserts(offset) ==
    ScanStartScaled(offset) > SCAN_START_OFS_MAX => ScanStartLsb(offset) = 1

\* gencgc-private.h:53-61  the value set_page_scan_start_offset stores
ScanStartStored(offset) ==
    IF ScanStartScaled(offset) > SCAN_START_OFS_MAX
    THEN SCAN_START_OFS_MAX
    ELSE ScanStartScaled(offset)

\* gencgc-private.h:47-62
set_page_scan_start_offset(pt, index, offset) ==
    [pt EXCEPT ![index].scan_start_offset_ = ScanStartStored(offset)]

\* the walk left the page table: page_table[lookback_page] is not an entry
OutOfTable == -1

\* gencgc-private.h:64-76 with one pass of the loop: the reader stops at the
\* first entry it looks back to
ScanStartLookbackOnce(pt, index, tot_offset_in_pages) ==
    LET lookback_page == index - tot_offset_in_pages
    IN  IF lookback_page \notin DOMAIN pt
        THEN OutOfTable
        ELSE tot_offset_in_pages + ShiftRight(pt[lookback_page].scan_start_offset_, 1)

\* gencgc-private.h:64-76
RECURSIVE ScanStartLookback(_, _, _)
ScanStartLookback(pt, index, tot_offset_in_pages) ==
    LET lookback_page == index - tot_offset_in_pages
    IN  IF lookback_page \notin DOMAIN pt
        THEN OutOfTable
        ELSE LET offset == pt[lookback_page].scan_start_offset_
                 tot == tot_offset_in_pages + ShiftRight(offset, 1)
             IN  IF offset = SCAN_START_OFS_MAX
                 THEN ScanStartLookback(pt, index, tot)
                 ELSE tot

scan_start_offset_iterated(pt, index) ==
    LET tot == ScanStartLookback(pt, index, 0)
    IN  IF tot = OutOfTable THEN OutOfTable ELSE ShiftLeft(tot, GENCGC_CARD_SHIFT)

\* gencgc-private.h:69-74  the entries page_table[lookback_page] the loop reads
RECURSIVE ScanStartLookbackReads(_, _, _)
ScanStartLookbackReads(pt, index, tot_offset_in_pages) ==
    LET lookback_page == index - tot_offset_in_pages
    IN  IF lookback_page \notin DOMAIN pt
        THEN {lookback_page}
        ELSE LET offset == pt[lookback_page].scan_start_offset_
                 tot == tot_offset_in_pages + ShiftRight(offset, 1)
             IN  {lookback_page} \cup
                 (IF offset = SCAN_START_OFS_MAX
                  THEN ScanStartLookbackReads(pt, index, tot)
                  ELSE {})

\* gencgc-private.h:78-85  the entries page_scan_start_offset(index) reads
page_scan_start_offset_reads(pt, index) ==
    IF pt[index].scan_start_offset_ # SCAN_START_OFS_MAX
    THEN {index}
    ELSE ScanStartLookbackReads(pt, index, 0)

\* x & ~1
ClearBit0(x) == x - (x % 2)

\* gencgc-private.h:81 without & ~1 : the scale bit is shifted with the offset
page_scan_start_offset_nomask(pt, index) ==
    LET stored == pt[index].scan_start_offset_
    IN  IF stored # SCAN_START_OFS_MAX
        THEN ShiftLeft(stored,
                       IF stored % 2 = 1 THEN GENCGC_CARD_SHIFT - 1 ELSE WORD_SHIFT)
        ELSE scan_start_offset_iterated(pt, index)

\* gencgc-private.h:78-85
page_scan_start_offset(pt, index) ==
    LET stored == pt[index].scan_start_offset_
    IN  IF stored # SCAN_START_OFS_MAX
        THEN ShiftLeft(ClearBit0(stored),
                       IF stored % 2 = 1 THEN GENCGC_CARD_SHIFT - 1 ELSE WORD_SHIFT)
        ELSE scan_start_offset_iterated(pt, index)

\* gencgc-private.h:104-109
page_starts_contiguous_block_p(pt, page_index) ==
    pt[page_index].scan_start_offset_ = 0

\* gencgc-private.h:132 with <= for < : a full page always ends its block
page_ends_contiguous_block_p_full(pt, page_index, gen) ==
    \/ page_words_used(pt, page_index) <= GENCGC_PAGE_WORDS
    \/ page_starts_contiguous_block_p(pt, page_index + 1)

\* gencgc-private.h:132 without the test of the next page
page_ends_contiguous_block_p_underfull(pt, page_index, gen) ==
    page_words_used(pt, page_index) < GENCGC_PAGE_WORDS

\* gencgc-private.h:112-149, the answer of a build without DEBUG
page_ends_contiguous_block_p(pt, page_index, gen) ==
    \/ page_words_used(pt, page_index) < GENCGC_PAGE_WORDS
    \/ page_starts_contiguous_block_p(pt, page_index + 1)

\* gencgc-private.h:135-146  safe_answer of a build with DEBUG
page_ends_safe_answer(pt, page_index, gen, free_page) ==
    \/ page_words_used(pt, page_index) < GENCGC_PAGE_WORDS
    \/ (page_index + 1) >= free_page
    \/ page_words_used(pt, page_index + 1) = 0
    \/ pt[page_index + 1].gen # gen
    \/ page_starts_contiguous_block_p(pt, page_index + 1)

\* gencgc-private.h:147  gc_assert(answer == safe_answer)
page_ends_cross_check(pt, page_index, gen, free_page) ==
    page_ends_contiguous_block_p(pt, page_index, gen)
        = page_ends_safe_answer(pt, page_index, gen, free_page)

\* gencgc-private.h:151-155: the loop, with the highest entry it reads;
\* page_ends_contiguous_block_p(last) reads entries last and last+1
RECURSIVE BlockWalk(_, _, _)
BlockWalk(pt, last, gen) ==
    IF last + 1 \notin DOMAIN pt
    THEN [last |-> OutOfTable, read |-> last + 1]
    ELSE IF page_ends_contiguous_block_p(pt, last, gen)
         THEN [last |-> last, read |-> last + 1]
         ELSE BlockWalk(pt, last + 1, gen)

contiguous_block_final_page(pt, first) == BlockWalk(pt, first, pt[first].gen).last

----------------------------------------------------------------------------
(* Regions over the page table.  gencgc.c is not among the sources; these   *)
(* follow the data model: a region is a run of pages of one generation, its *)
(* interior pages full, only its first and last page partly used; an open   *)
(* region's pages carry OPEN_REGION_PAGE_FLAG; a free page has no words     *)
(* used and scan start 0.                                                   *)

HeapBase == GENCGC_PAGE_BYTES
page_address(p) == HeapBase + p * GENCGC_PAGE_BYTES
find_page_index(addr) == (addr - HeapBase) \div GENCGC_PAGE_BYTES

\* a request this large gets pages of its own
LARGE_OBJECT_SIZE == GENCGC_PAGE_BYTES

EmptyRegion == [start_addr |-> 0, free_pointer |-> 0, end_addr |-> 0]

PageIsOpen(e) == e.type >= OPEN_REGION_PAGE_FLAG
PageType(e) == e.type % OPEN_REGION_PAGE_FLAG
PageIsFree(e) == e.type = FREE_PAGE_FLAG

Min(a, b) == IF a < b THEN a ELSE b
Max(a, b) == IF a > b THEN a ELSE b

\* one past the last page in use
NextFreePage(pt) ==
    IF \E p \in Pages : ~PageIsFree(pt[p])
    THEN 1 + CHOOSE p \in Pages :
                 /\ ~PageIsFree(pt[p])
                 /\ \A r \in Pages : ~PageIsFree(pt[r]) => r <= p
    ELSE 0

\* a region may begin on a free page, or behind the data of a closed page
\* of its own type and generation when the request is small
RegionStartOk(pt, p, type, gen, nbytes) ==
    \/ PageIsFree(pt[p])
    \/ /\ pt[p].type = type
       /\ pt[p].gen = gen
       /\ page_words_used(pt, p) > 0
       /\ page_words_used(pt, p) < GENCGC_PAGE_WORDS
       /\ nbytes < LARGE_OBJECT_SIZE

RegionLastPage(pt, p, nbytes) ==
    LET avail == GENCGC_PAGE_BYTES - page_bytes_used(pt, p)
    IN  IF nbytes <= avail
        THEN p
        ELSE p + ((nbytes - avail + GENCGC_PAGE_BYTES - 1) \div GENCGC_PAGE_BYTES)

RegionFits(pt, p, type, gen, nbytes) ==
    /\ RegionStartOk(pt, p, type, gen, nbytes)
    /\ RegionLastPage(pt, p, nbytes) \in Pages
    /\ \A i \in (p + 1)..RegionLastPage(pt, p, nbytes) : PageIsFree(pt[i])

\* first fit; OutOfTable when the heap is exhausted
RegionFirstPage(pt, type, gen, nbytes) ==
    IF \E p \in Pages : RegionFits(pt, p, type, gen, nbytes)
    THEN CHOOSE p \in Pages :
             /\ RegionFits(pt, p, type, gen, nbytes)
             /\ \A r \in Pages : RegionFits(pt, r, type, gen, nbytes) => p <= r
    ELSE OutOfTable

RegionStart(pt, p) == page_address(p) + page_bytes_used(pt, p)

\* the pages a new region takes whose scan start it sets
RegionNewPages(pt, p, nbytes) ==
    {i \in p..RegionLastPage(pt, p, nbytes) : i # p \/ PageIsFree(pt[p])}

\* open a region at page p: its pages are typed, flagged open, and point
\* back to the region's start
gc_alloc_new_region(pt, p, type, gen, nbytes) ==
    LET start == RegionStart(pt, p)
        last == RegionLastPage(pt, p, nbytes)
    IN  [region |-> [start_addr |-> start, free_pointer |-> start,
                     end_addr |-> page_address(last + 1)],
         page_table |->
            [i \in Entries |->
                IF i \in RegionNewPages(pt, p, nbytes)
                THEN [type |-> type + OPEN_REGION_PAGE_FLAG,
                      words_used_ |-> 0,
                      scan_start_offset_ |-> ScanStartStored(page_address(i) - start),
                      gen |-> gen]
                ELSE IF i = p
                     THEN [pt[i] EXCEPT !.type = type + OPEN_REGION_PAGE_FLAG]
                     ELSE pt[i]]]

\* close a region: record the words used, give back the untouched pages,
\* clear the open flag
gc_close_region(pt, region) ==
    [i \in Entries |->
        IF i \in find_page_index(region.start_addr)..find_page_index(region.end_addr - 1)
        THEN LET used == Max(0, Min(GENCGC_PAGE_BYTES,
                                    region.free_pointer - page_address(i)))
             IN  IF used = 0
                 THEN FreePage
                 ELSE [pt[i] EXCEPT !.type = PageType(pt[i]),
                                    !.words_used_ = ShiftRight(used, WORD_SHIFT)]
        ELSE pt[i]]

ensure_region_closed(pt, region) ==
    IF region.start_addr # 0
    THEN [region |-> EmptyRegion, page_table |-> gc_close_region(pt, region)]
    ELSE [region |-> region, page_table |-> pt]

\* the offsets set_page_scan_start_offset is given when a region opens at p
RegionOffsets(pt, p, nbytes) ==
    [i \in RegionNewPages(pt, p, nbytes) |-> page_address(i) - RegionStart(pt, p)]

----------------------------------------------------------------------------
(* The page table as allocation and reclamation leave it. *)

\* the sizes of the regions allocated: ten words, a page, two pages and ten
\* words
RegionBytes == {80, 128, 336}

\* allocation: a region is opened, filled with nbytes and closed
AllocRegion(nbytes, gen) ==
    /\ Running
    /\ UNCHANGED notPage
    /\ LET p == RegionFirstPage(page_table, BOXED_PAGE_FLAG, gen, nbytes)
       IN  /\ p # OutOfTable
           /\ LET opened == gc_alloc_new_region(page_table, p, BOXED_PAGE_FLAG, gen, nbytes)
                  offsets == RegionOffsets(page_table, p, nbytes)
                  filled == [opened.region EXCEPT !.free_pointer = @ + nbytes]
              IN  IF \E i \in DOMAIN offsets : gc_assert_fails(ScanStartAsserts(offsets[i]))
                  THEN /\ lost' = TRUE
                       /\ UNCHANGED pageVars
                  ELSE /\ page_table' = gc_close_region(opened.page_table, filled)
                       /\ next_free_page' = NextFreePage(page_table')
                       /\ written' = [i \in Entries |->
                                        IF i \in DOMAIN offsets THEN offsets[i]
                                        ELSE written[i]]
                       /\ UNCHANGED lost

\* reclamation: the pages of a generation are freed
FreeGeneration(gen) ==
    /\ Running
    /\ UNCHANGED notPage
    /\ \E p \in Pages : ~PageIsFree(page_table[p]) /\ page_table[p].gen = gen
    /\ page_table' = [i \in Entries |->
                        IF ~PageIsFree(page_table[i]) /\ page_table[i].gen = gen
                        THEN FreePage ELSE page_table[i]]
    /\ next_free_page' = NextFreePage(page_table')
    /\ written' = [i \in Entries |->
                     IF ~PageIsFree(page_table[i]) /\ page_table[i].gen = gen
                     THEN NotWritten ELSE written[i]]
    /\ UNCHANGED lost

----------------------------------------------------------------------------
(* The scan-start codec on its own: an entry is written, then read. *)

\* every multiple of the word size up to a page and a word, the offsets at
\* the end of the word-scaled range, and page multiples up to and beyond the
\* largest the field holds
CodecOffsets ==
    {o \in 0..(GENCGC_PAGE_BYTES + N_WORD_BYTES) : o % N_WORD_BYTES = 0}
    \cup {240, 248, 256, 264}
    \cup {GENCGC_PAGE_BYTES * k : k \in {3, 14, 15, 16}}

SetsDone == Cardinality({p \in Entries : written[p] # NotWritten})

CodecSet(index, offset) ==
    /\ Running
    /\ UNCHANGED notPage
    /\ written[index] = NotWritten
    /\ SetsDone < MaxSets
    /\ IF gc_assert_fails(ScanStartAsserts(offset))
       THEN /\ lost' = TRUE
            /\ UNCHANGED pageVars
       ELSE /\ page_table' = set_page_scan_start_offset(page_table, index, offset)
            /\ written' = [written EXCEPT ![index] = offset]
            /\ UNCHANGED <<lost, next_free_page>>

----------------------------------------------------------------------------
(* A region of many pages: the scan-start entry of each page is set to the *)
(* distance from the region's first page, in ascending order of pages, as   *)
(* the allocator does when it opens a region.                               *)

ChainEntries == 0..ChainPages
\* the pages a region may start at
ChainStarts == 0..3
ChainOffsets == {GENCGC_PAGE_BYTES * k : k \in 0..ChainPages}
\* what the entries of the pages hold from an earlier use: the start of a
\* block, a distance of 14 pages, or the clamp value
StaleOffsets == {0, SCAN_START_OFS_MAX - 2, SCAN_START_OFS_MAX}

ChainWritten == {p \in DOMAIN written : written[p] # NotWritten}

\* gencgc-private.h:47-62 applied to the next page of the region
ChainSet(index, offset) ==
    /\ Running
    /\ UNCHANGED notPage
    /\ written[index] = NotWritten
    /\ IF ChainWritten = {}
       THEN index \in ChainStarts /\ offset = 0
       ELSE /\ index - 1 \in ChainWritten
            /\ offset = written[index - 1] + GENCGC_PAGE_BYTES
    /\ IF gc_assert_fails(ScanStartAsserts(offset))
       THEN /\ lost' = TRUE
            /\ UNCHANGED pageVars
       ELSE /\ page_table' = set_page_scan_start_offset(page_table, index, offset)
            /\ written' = [written EXCEPT ![index] = offset]
            /\ UNCHANGED <<lost, next_free_page>>

----------------------------------------------------------------------------
(* alloc_code_object and close_code_region, alloc.c:55-94.  lisp_alloc is   *)
(* not among the sources and follows the data model: n bytes are taken from *)
(* the open code region, which is closed and replaced by a new one from the *)
(* page table when it is exhausted.                                         *)

\* `unsigned', scaled from 32 bits
UnsignedBits == 8
UnsignedMul(a, b) == (a * b) % Pow2(UnsignedBits)
UnsignedSub(a, b) == (a - b) % Pow2(UnsignedBits)

\* the word counts callers pass: nothing, one word, a header and its size
\* word, a small object, an object larger than a page, and one whose byte
\* count does not fit an `unsigned'
TotalWords == {0, 1, 2, 4, 18, 33}

\* the header word holds the size above the widetag
CODE_HEADER_SIZE_SHIFT == 8
CODE_HEADER_WIDETAG == 45

\* struct code: header, boxed_size, debug_info are its first three words
HeaderWord == 0
BoxedSizeWord == 1
DebugInfoWord == 2

\* alloc.c:81 ((uword_t)total_words << CODE_HEADER_SIZE_SHIFT) | CODE_HEADER_WIDETAG
code_header(total_words) ==
    ShiftLeft(total_words, CODE_HEADER_SIZE_SHIFT) + CODE_HEADER_WIDETAG

\* the word count a reader takes from a header word
code_header_words(header) == ShiftRight(header, CODE_HEADER_SIZE_SHIFT)

\* PTHREAD_MUTEX_INITIALIZER
Unlocked == 0

IdleCall == [pc |-> "idle", total_words |-> 0, code |-> 0]

NoClose == [calls |-> 0, run |-> 0, region |-> EmptyRegion,
            page_table |-> [i \in Entries |-> FreePage]]

AllocsStarted ==
    Len(objects) + Cardinality({t \in Threads :
        call[t].pc \in {"lock", "alloc", "unlock", "header", "boxed_size",
                        "debug_info", "trailer", "lost"}})

HeapEnd == page_address(NPages)
InHeap(addr) == HeapBase <= addr /\ addr < HeapEnd

\* ((lispobj*)code)[index]
WordAddress(code, index) == (code + index * N_WORD_BYTES) % Pow2(WordBits)

\* the result of lisp_alloc: the object, the region and the page table;
\* OutOfTable for the object when the heap is exhausted
lisp_alloc(pt, region, nbytes, type) ==
    IF region.start_addr # 0 /\ region.free_pointer + nbytes <= region.end_addr
    THEN [obj |-> region.free_pointer,
          region |-> [region EXCEPT !.free_pointer = @ + nbytes],
          page_table |-> pt,
          offsets |-> <<>>]
    ELSE CHOOSE got \in UNION {
             {IF p = OutOfTable
              THEN [obj |-> OutOfTable, region |-> shut.region,
                    page_table |-> shut.page_table, offsets |-> <<>>]
              ELSE LET opened == gc_alloc_new_region(shut.page_table, p, type, 0, nbytes)
                   IN  [obj |-> opened.region.free_pointer,
                        region |-> [opened.region EXCEPT !.free_pointer = @ + nbytes],
                        page_table |-> opened.page_table,
                        offsets |-> RegionOffsets(shut.page_table, p, nbytes)]
                : p \in {RegionFirstPage(shut.page_table, type, 0, nbytes)}}
             : shut \in {ensure_region_closed(pt, region)}} : TRUE

\* a store through a pointer: into the heap it changes the word; anywhere
\* else it is undefined, and either faults, which is fatal, or changes memory
\* that is not the heap
Store(t, addr, val, next) ==
    IF InHeap(addr)
    THEN /\ mem' = (addr :> val) @@ mem
         /\ call' = [call EXCEPT ![t] = next]
         /\ UNCHANGED <<lost, wild>>
    ELSE \/ /\ lost' = TRUE
            /\ call' = [call EXCEPT ![t].pc = "lost"]
            /\ UNCHANGED <<mem, wild>>
         \/ /\ wild' = TRUE
            /\ call' = [call EXCEPT ![t] = next]
            /\ UNCHANGED <<mem, lost>>

\* alloc.c:67-68 without the check of GC_INHIBIT
AllocCallUnchecked(t, total_words) ==
    /\ Running
    /\ UNCHANGED <<notCode, pageVars>>
    /\ call[t].pc = "idle"
    /\ AllocsStarted < MaxAllocs
    /\ call' = [call EXCEPT ![t] = [pc |-> "lock", total_words |-> total_words,
                                    code |-> 0]]
    /\ UNCHANGED <<lost, gc_inhibit, code_allocator_lock, code_region, mem, wild,
                   objects, closed>>

\* alloc.c:55-68  if (read_TLS(GC_INHIBIT, th) == NIL) lose(...)
AllocCall(t, total_words) ==
    /\ Running
    /\ UNCHANGED <<notCode, pageVars>>
    /\ call[t].pc = "idle"
    /\ AllocsStarted < MaxAllocs
    /\ IF require_gc_inhibit /\ ~gc_inhibit[t]
       THEN /\ lost' = TRUE
            /\ call' = [call EXCEPT ![t] = [pc |-> "lost", total_words |-> total_words,
                                            code |-> 0]]
       ELSE /\ call' = [call EXCEPT ![t] = [pc |-> "lock", total_words |-> total_words,
                                            code |-> 0]]
            /\ UNCHANGED lost
    /\ UNCHANGED <<gc_inhibit, code_allocator_lock, code_region, mem, wild,
                   objects, closed>>

\* alloc.c:73 with a lock that lets a thread in while another holds it
AllocLockUnguarded(t) ==
    /\ Running
    /\ UNCHANGED <<notCode, pageVars>>
    /\ call[t].pc = "lock"
    /\ code_allocator_lock' = t
    /\ call' = [call EXCEPT ![t].pc = "alloc"]
    /\ UNCHANGED <<lost, gc_inhibit, code_region, mem, wild, objects, closed>>

\* alloc.c:73-74  thread_mutex_lock(&code_allocator_lock); the lock call
\* returns 0, so gc_assert(!result) passes
AllocLock(t) ==
    /\ Running
    /\ UNCHANGED <<notCode, pageVars>>
    /\ call[t].pc = "lock"
    /\ code_allocator_lock = Unlocked
    /\ code_allocator_lock' = t
    /\ call' = [call EXCEPT ![t].pc = "alloc"]
    /\ UNCHANGED <<lost, gc_inhibit, code_region, mem, wild, objects, closed>>

\* alloc.c:75-76  lisp_alloc(&code_region, total_words*N_WORD_BYTES, CODE_PAGE_TYPE, th)
\* the byte count is an `unsigned' product; an exhausted heap and a failed
\* assertion of set_page_scan_start_offset are both fatal
AllocObject(t) ==
    /\ Running
    /\ UNCHANGED notCode
    /\ call[t].pc = "alloc"
    /\ \E got \in {lisp_alloc(page_table, code_region,
                              UnsignedMul(call[t].total_words, N_WORD_BYTES),
                              CODE_PAGE_TYPE)} :
           /\ code_region' = got.region
           /\ page_table' = got.page_table
           /\ next_free_page' = NextFreePage(got.page_table)
           /\ written' = [i \in Entries |->
                            IF i \in DOMAIN got.offsets THEN got.offsets[i]
                            ELSE written[i]]
           /\ IF \/ got.obj = OutOfTable
                 \/ \E i \in DOMAIN got.offsets :
                        gc_assert_fails(ScanStartAsserts(got.offsets[i]))
              THEN /\ lost' = TRUE
                   /\ call' = [call EXCEPT ![t].pc = "lost"]
              ELSE /\ call' = [call EXCEPT ![t].pc = "unlock", ![t].code = got.obj]
                   /\ UNCHANGED lost
    /\ closed' = [NoClose EXCEPT !.calls = closed.calls]
    /\ UNCHANGED <<gc_inhibit, code_allocator_lock, mem, wild, objects>>

\* alloc.c:77 left out: the call goes on without releasing the lock
AllocUnlockSkipped(t) ==
    /\ Running
    /\ UNCHANGED <<notCode, pageVars>>
    /\ call[t].pc = "unlock"
    /\ call' = [call EXCEPT ![t].pc = "header"]
    /\ UNCHANGED <<lost, gc_inhibit, code_allocator_lock, code_region, mem, wild,
                   objects, closed>>

\* alloc.c:77-78  thread_mutex_unlock(&code_allocator_lock)
AllocUnlock(t) ==
    /\ Running
    /\ UNCHANGED <<notCode, pageVars>>
    /\ call[t].pc = "unlock"
    /\ code_allocator_lock' = Unlocked
    /\ call' = [call EXCEPT ![t].pc = "header"]
    /\ UNCHANGED <<lost, gc_inhibit, code_region, mem, wild, objects, closed>>

\* alloc.c:81  code->header = ...
WriteHeader(t) ==
    /\ Running
    /\ UNCHANGED <<notCode, pageVars>>
    /\ call[t].pc = "header"
    /\ Store(t, WordAddress(call[t].code, HeaderWord),
             code_header(call[t].total_words),
             [call[t] EXCEPT !.pc = "boxed_size"])
    /\ UNCHANGED <<gc_inhibit, code_allocator_lock, code_region, objects, closed>>

\* alloc.c:82  code->boxed_size = 0
WriteBoxedSize(t) ==
    /\ Running
    /\ UNCHANGED <<notCode, pageVars>>
    /\ call[t].pc = "boxed_size"
    /\ Store(t, WordAddress(call[t].code, BoxedSizeWord), 0,
             [call[t] EXCEPT !.pc = "debug_info"])
    /\ UNCHANGED <<gc_inhibit, code_allocator_lock, code_region, objects, closed>>

\* alloc.c:83  code->debug_info = 0
WriteDebugInfo(t) ==
    /\ Running
    /\ UNCHANGED <<notCode, pageVars>>
    /\ call[t].pc = "debug_info"
    /\ Store(t, WordAddress(call[t].code, DebugInfoWord), 0,
             [call[t] EXCEPT !.pc = "trailer"])
    /\ UNCHANGED <<gc_inhibit, code_allocator_lock, code_region, objects, closed>>

\* alloc.c:84-87  ((lispobj*)code)[total_words-1] = 0; return make_lispobj(code, ...)
\* the index is an `unsigned': total_words-1 wraps when total_words is 0
WriteTrailer(t) ==
    /\ Running
    /\ UNCHANGED <<notCode, pageVars>>
    /\ call[t].pc = "trailer"
    /\ Store(t, WordAddress(call[t].code, UnsignedSub(call[t].total_words, 1)), 0,
             IdleCall)
    /\ objects' = IF call'[t].pc = "idle"
                  THEN Append(objects, [total_words |-> call[t].total_words,
                                        code |-> call[t].code])
                  ELSE objects
    /\ UNCHANGED <<gc_inhibit, code_allocator_lock, code_region, closed>>

\* alloc.c:90-91  thread_mutex_lock(&code_allocator_lock)
CloseLock(t) ==
    /\ Running
    /\ UNCHANGED <<notCode, pageVars>>
    /\ call[t].pc = "idle"
    /\ closed.calls < MaxCloses
    /\ code_allocator_lock = Unlocked
    /\ code_allocator_lock' = t
    /\ call' = [call EXCEPT ![t].pc = "close"]
    /\ closed' = [closed EXCEPT !.calls = @ + 1]
    /\ UNCHANGED <<lost, gc_inhibit, code_region, mem, wild, objects>>

\* alloc.c:92 without the call of ensure_region_closed
CloseRegionSkipped(t) ==
    /\ Running
    /\ UNCHANGED <<notCode, pageVars>>
    /\ call[t].pc = "close"
    /\ call' = [call EXCEPT ![t].pc = "close_unlock"]
    /\ closed' = [closed EXCEPT !.run = @ + 1, !.region = code_region,
                                !.page_table = page_table]
    /\ UNCHANGED <<lost, gc_inhibit, code_allocator_lock, code_region, mem, wild,
                   objects>>

\* alloc.c:92  ensure_region_closed(&code_region, CODE_PAGE_TYPE)
CloseRegion(t) ==
    /\ Running
    /\ UNCHANGED notCode
    /\ call[t].pc = "close"
    /\ LET shut == ensure_region_closed(page_table, code_region)
       IN  /\ code_region' = shut.region
           /\ page_table' = shut.page_table
           /\ next_free_page' = NextFreePage(shut.page_table)
           /\ closed' = [closed EXCEPT !.run = @ + 1, !.region = shut.region,
                                       !.page_table = shut.page_table]
    /\ call' = [call EXCEPT ![t].pc = "close_unlock"]
    /\ UNCHANGED <<written, lost, gc_inhibit, code_allocator_lock, mem, wild, objects>>

\* alloc.c:93  thread_mutex_unlock(&code_allocator_lock)
CloseUnlock(t) ==
    /\ Running
    /\ UNCHANGED <<notCode, pageVars>>
    /\ call[t].pc = "close_unlock"
    /\ code_allocator_lock' = Unlocked
    /\ call' = [call EXCEPT ![t] = IdleCall]
    /\ UNCHANGED <<lost, gc_inhibit, code_region, mem, wild, objects, closed>>

----------------------------------------------------------------------------
(* The allocation profiler, alloc.c:37-43 and 98-171.  os_allocate and      *)
(* os_deallocate are the address-space provider: os_allocate gives a block  *)
(* at an address no block in use has, os_deallocate gives a block back.     *)

\* alloc_profile_data is not a simple vector (it is 0 until Lisp sets it)
NotAVector == -1

\* the lengths of the metadata vector Lisp supplies: empty, and two that
\* need buffers of different sizes
VectorLengths == {0, 4, 6}

simple_vector_p(data) == data # NotAVector
vector_len(data) == data

\* the addresses os_allocate can give
OsAddresses == {4096, 8192}

\* Lisp sets the metadata vector; alloc.c only reads it
SetProfileData(data) ==
    /\ Running
    /\ UNCHANGED <<notProf, pageVars, lost>>
    /\ alloc_profile_data # data
    /\ alloc_profile_data' = data
    /\ UNCHANGED <<alloc_profiling, alloc_profile_buffer, profile_buffer_size,
                   max_alloc_point_counters, profile_data, alloc_profiler_lock,
                   prof, os_memory, prof_log>>

\* alloc.c:110-111  thread_mutex_lock(&alloc_profiler_lock)
ProfStartLock(t) ==
    /\ Running
    /\ UNCHANGED <<notProf, pageVars, lost>>
    /\ prof[t] = "idle"
    /\ alloc_profiler_lock = Unlocked
    /\ alloc_profiler_lock' = t
    /\ prof' = [prof EXCEPT ![t] = "start"]
    /\ UNCHANGED <<alloc_profiling, alloc_profile_buffer, profile_buffer_size,
                   alloc_profile_data, max_alloc_point_counters, profile_data,
                   os_memory, prof_log>>

\* what a call adds to the history: what it found, what it did and what
\* it left
ProfLogged(op, noop, allocated, warned) ==
    Append(IF Len(prof_log) > 2 THEN Tail(prof_log) ELSE prof_log,
           [op |-> op, data |-> alloc_profile_data, noop |-> noop,
            allocated |-> allocated, warned |-> warned,
            buffer |-> alloc_profile_buffer', slots |-> profile_data'])

\* alloc.c:116 with the test always true: every start takes a new buffer
ProfResizeAlways(size) == TRUE

\* alloc.c:116  if (size != profile_buffer_size)
ProfResize(size) == size # profile_buffer_size

\* alloc.c:112-137  the branch that starts the profiler
ProfStartRun(t) ==
    LET counters == vector_len(alloc_profile_data) \div 2
        size == N_WORD_BYTES * counters
        resize == ProfResize(size)
        old_buffer == IF resize THEN alloc_profile_buffer ELSE 0
    IN  /\ max_alloc_point_counters' = counters
        /\ profile_buffer_size' = size
        /\ \E fresh \in (IF resize THEN OsAddresses \ DOMAIN os_memory ELSE {0}) :
              LET buffer == IF resize THEN fresh ELSE alloc_profile_buffer
                  given == IF resize THEN (fresh :> size) @@ os_memory ELSE os_memory
              IN  /\ alloc_profile_buffer' = buffer
                  /\ profile_data' = [th \in Threads |-> buffer]
                  \* alloc.c:136  os_deallocate(alloc_profile_buffer, profile_buffer_size)
                  /\ os_memory' = IF old_buffer # 0
                                  THEN [a \in DOMAIN given \ {buffer} |-> given[a]]
                                  ELSE given
        /\ alloc_profiling' = 1
        /\ prof_log' = ProfLogged("start", FALSE, resize, old_buffer # 0)

\* alloc.c:112 without !alloc_profiling: a running profiler is started again
ProfMayStartAgain == simple_vector_p(alloc_profile_data)

\* alloc.c:112  if (!alloc_profiling && simple_vector_p(alloc_profile_data))
ProfMayStart == alloc_profiling = 0 /\ simple_vector_p(alloc_profile_data)

\* alloc.c:112-141  the locked section of allocation_profiler_start
ProfStartBody(t) ==
    /\ Running
    /\ UNCHANGED <<notProf, pageVars, lost>>
    /\ prof[t] = "start"
    /\ IF ProfMayStart
       THEN ProfStartRun(t)
       ELSE /\ UNCHANGED <<alloc_profiling, alloc_profile_buffer, profile_buffer_size,
                           max_alloc_point_counters, profile_data, os_memory>>
            /\ prof_log' = ProfLogged("start", TRUE, FALSE, FALSE)
    /\ prof' = [prof EXCEPT ![t] = "start_unlock"]
    /\ UNCHANGED <<alloc_profile_data, alloc_profiler_lock>>

\* alloc.c:143-145  thread_mutex_unlock(&alloc_profiler_lock)
ProfStartUnlock(t) ==
    /\ Running
    /\ UNCHANGED <<notProf, pageVars, lost>>
    /\ prof[t] = "start_unlock"
    /\ alloc_profiler_lock' = Unlocked
    /\ prof' = [prof EXCEPT ![t] = "idle"]
    /\ UNCHANGED <<alloc_profiling, alloc_profile_buffer, profile_buffer_size,
                   alloc_profile_data, max_alloc_point_counters, profile_data,
                   os_memory, prof_log>>

\* alloc.c:151-152  thread_mutex_lock(&alloc_profiler_lock)
ProfStopLock(t) ==
    /\ Running
    /\ UNCHANGED <<notProf, pageVars, lost>>
    /\ prof[t] = "idle"
    /\ alloc_profiler_lock = Unlocked
    /\ alloc_profiler_lock' = t
    /\ prof' = [prof EXCEPT ![t] = "stop"]
    /\ UNCHANGED <<alloc_profiling, alloc_profile_buffer, profile_buffer_size,
                   alloc_profile_data, max_alloc_point_counters, profile_data,
                   os_memory, prof_log>>

\* alloc.c:153-158 without the loop over the threads: the flag is cleared,
\* the slots are left as they are
ProfStopBodyKeepsSlots(t) ==
    /\ Running
    /\ UNCHANGED <<notProf, pageVars, lost>>
    /\ prof[t] = "stop"
    /\ IF alloc_profiling # 0
       THEN /\ alloc_profiling' = 0
            /\ UNCHANGED <<alloc_profile_buffer, profile_buffer_size,
                           max_alloc_point_counters, profile_data, os_memory>>
            /\ prof_log' = ProfLogged("stop", FALSE, FALSE, FALSE)
       ELSE /\ UNCHANGED <<alloc_profiling, alloc_profile_buffer, profile_buffer_size,
                           max_alloc_point_counters, profile_data, os_memory>>
            /\ prof_log' = ProfLogged("stop", TRUE, FALSE, FALSE)
    /\ prof' = [prof EXCEPT ![t] = "stop_unlock"]
    /\ UNCHANGED <<alloc_profile_data, alloc_profiler_lock>>

\* alloc.c:153-161  the locked section of allocation_profiler_stop
ProfStopBody(t) ==
    /\ Running
    /\ UNCHANGED <<notProf, pageVars, lost>>
    /\ prof[t] = "stop"
    /\ IF alloc_profiling # 0
       THEN /\ alloc_profiling' = 0
            /\ profile_data' = [th \in Threads |-> 0]
            /\ UNCHANGED <<alloc_profile_buffer, profile_buffer_size,
                           max_alloc_point_counters, os_memory>>
            /\ prof_log' = ProfLogged("stop", FALSE, FALSE, FALSE)
       ELSE /\ UNCHANGED <<alloc_profiling, alloc_profile_buffer, profile_buffer_size,
                           max_alloc_point_counters, profile_data, os_memory>>
            /\ prof_log' = ProfLogged("stop", TRUE, FALSE, FALSE)
    /\ prof' = [prof EXCEPT ![t] = "stop_unlock"]
    /\ UNCHANGED <<alloc_profile_data, alloc_profiler_lock>>

\* alloc.c:162-163  thread_mutex_unlock(&alloc_profiler_lock)
ProfStopUnlock(t) ==
    /\ Running
    /\ UNCHANGED <<notProf, pageVars, lost>>
    /\ prof[t] = "stop_unlock"
    /\ alloc_profiler_lock' = Unlocked
    /\ prof' = [prof EXCEPT ![t] = "idle"]
    /\ UNCHANGED <<alloc_profiling, alloc_profile_buffer, profile_buffer_size,
                   alloc_profile_data, max_alloc_point_counters, profile_data,
                   os_memory, prof_log>>

----------------------------------------------------------------------------
(* Initial states and specifications. *)

StaticInitial ==
    /\ static_space_free_pointer = STATIC_SPACE_START
    /\ bump = [t \in Threads |-> IdleFrame]
    /\ returned = <<>>

PageInitial ==
    /\ page_table = [i \in Entries |-> FreePage]
    /\ next_free_page = 0
    /\ written = [i \in Entries |-> NotWritten]

\* GC_INHIBIT is NIL in a thread until its caller binds it
CodeInitial ==
    /\ code_allocator_lock = Unlocked
    /\ code_region = EmptyRegion
    /\ mem = <<>>
    /\ wild = FALSE
    /\ call = [t \in Threads |-> IdleCall]
    /\ objects = <<>>
    /\ closed = NoClose

\* the profiler before its first start: the globals of alloc.c:40-43 are zero
ProfInitial ==
    /\ alloc_profiling = 0
    /\ alloc_profile_buffer = 0
    /\ profile_buffer_size = 0
    /\ alloc_profile_data = NotAVector
    /\ max_alloc_point_counters = 0
    /\ profile_data = [t \in Threads |-> 0]
    /\ alloc_profiler_lock = Unlocked
    /\ prof = [t \in Threads |-> "idle"]
    /\ os_memory = <<>>
    /\ prof_log = <<>>

\* a build with or without NDEBUG; REQUIRE_GC_INHIBIT is read by
\* alloc_code_object alone and is left out of the builds of the other parts
BuildInitial ==
    /\ ndebug \in BOOLEAN
    /\ require_gc_inhibit = FALSE

InitStatic ==
    /\ BuildInitial
    /\ lost = FALSE
    /\ StaticInitial
    /\ PageInitial
    /\ CodeInitial
    /\ gc_inhibit = [t \in Threads |-> FALSE]
    /\ ProfInitial

NextStatic ==
    \/ \E t \in Threads, nbytes \in NBytes : BumpCall(t, nbytes)
    \/ \E t \in Threads : BumpCheck(t)
    \/ \E t \in Threads : BumpCAS(t)

SpecStatic == InitStatic /\ [][NextStatic]_vars

\* fair scheduling: a thread inside the loop is not held back forever; each
\* pass is a bounds check and a compare-and-swap, neither of which waits
SpecStaticFair ==
    /\ InitStatic
    /\ [][NextStatic]_vars
    /\ \A t \in Threads : WF_vars(BumpCheck(t)) /\ WF_vars(BumpCAS(t))

InitCodec ==
    /\ BuildInitial
    /\ lost = FALSE
    /\ StaticInitial
    /\ PageInitial
    /\ CodeInitial
    /\ gc_inhibit = [t \in Threads |-> FALSE]
    /\ ProfInitial

NextCodec ==
    \E index \in Entries, offset \in CodecOffsets : CodecSet(index, offset)

SpecCodec == InitCodec /\ [][NextCodec]_vars

InitChain ==
    /\ BuildInitial
    /\ lost = FALSE
    /\ StaticInitial
    /\ \E stale \in StaleOffsets :
           page_table = [i \in ChainEntries |->
                            [FreePage EXCEPT !.scan_start_offset_ = stale]]
    /\ next_free_page = 0
    /\ written = [i \in ChainEntries |-> NotWritten]
    /\ CodeInitial
    /\ gc_inhibit = [t \in Threads |-> FALSE]
    /\ ProfInitial

NextChain ==
    \E index \in ChainEntries, offset \in ChainOffsets : ChainSet(index, offset)

SpecChain == InitChain /\ [][NextChain]_vars

InitPage ==
    /\ BuildInitial
    /\ lost = FALSE
    /\ StaticInitial
    /\ PageInitial
    /\ CodeInitial
    /\ gc_inhibit = [t \in Threads |-> FALSE]
    /\ ProfInitial

NextPage ==
    \/ \E nbytes \in RegionBytes, gen \in Generations : AllocRegion(nbytes, gen)
    \/ \E gen \in Generations : FreeGeneration(gen)

SpecPage == InitPage /\ [][NextPage]_vars

\* the callers of alloc_code_object run with or without GC_INHIBIT bound
InitCode ==
    /\ ndebug \in BOOLEAN
    /\ require_gc_inhibit \in BOOLEAN
    /\ lost = FALSE
    /\ StaticInitial
    /\ PageInitial
    /\ CodeInitial
    /\ gc_inhibit \in [Threads -> BOOLEAN]
    /\ ProfInitial

NextCode ==
    \/ \E t \in Threads, total_words \in TotalWords : AllocCall(t, total_words)
    \/ \E t \in Threads : AllocLock(t)
    \/ \E t \in Threads : AllocObject(t)
    \/ \E t \in Threads : AllocUnlock(t)
    \/ \E t \in Threads : WriteHeader(t)
    \/ \E t \in Threads : WriteBoxedSize(t)
    \/ \E t \in Threads : WriteDebugInfo(t)
    \/ \E t \in Threads : WriteTrailer(t)
    \/ \E t \in Threads : CloseLock(t)
    \/ \E t \in Threads : CloseRegion(t)
    \/ \E t \in Threads : CloseUnlock(t)

SpecCode == InitCode /\ [][NextCode]_vars

InitProf ==
    /\ BuildInitial
    /\ lost = FALSE
    /\ StaticInitial
    /\ PageInitial
    /\ CodeInitial
    /\ gc_inhibit = [t \in Threads |-> FALSE]
    /\ ProfInitial

NextProf ==
    \/ \E data \in VectorLengths \cup {NotAVector} : SetProfileData(data)
    \/ \E t \in Threads : ProfStartLock(t)
    \/ \E t \in Threads : ProfStartBody(t)
    \/ \E t \in Threads : ProfStartUnlock(t)
    \/ \E t \in Threads : ProfStopLock(t)
    \/ \E t \in Threads : ProfStopBody(t)
    \/ \E t \in Threads : ProfStopUnlock(t)

SpecProf == InitProf /\ [][NextProf]_vars

----------------------------------------------------------------------------
(* The four locking operations of alloc.c together: a thread is inside at   *)
(* most one call at a time.                                                 *)

OpsStarted ==
    AllocsStarted + closed.calls + Len(prof_log)
        + Cardinality({t \in Threads : prof[t] \in {"start", "stop"}})

\* the thread is in none of the four operations
Outside(t) == call[t].pc = "idle" /\ prof[t] = "idle"

\* alloc.c:55  a thread calls alloc_code_object
CallAllocCodeObject(t, total_words) ==
    /\ Outside(t)
    /\ OpsStarted < MaxOps
    /\ AllocCall(t, total_words)

\* alloc.c:89-90  a thread calls close_code_region and gets the lock
CallCloseCodeRegion(t) ==
    /\ Outside(t)
    /\ OpsStarted < MaxOps
    /\ CloseLock(t)

\* alloc.c:108-110  a thread calls allocation_profiler_start and gets the lock
CallProfilerStart(t) ==
    /\ Outside(t)
    /\ OpsStarted < MaxOps
    /\ ProfStartLock(t)

\* alloc.c:149-151  a thread calls allocation_profiler_stop and gets the lock
CallProfilerStop(t) ==
    /\ Outside(t)
    /\ OpsStarted < MaxOps
    /\ ProfStopLock(t)

\* the word counts that take the paths of alloc_code_object apart: an object
\* whose stores stay in the heap, and one whose trailing store leaves it
LockWords == {0, 4}
\* the metadata vector Lisp supplies once
LockVectors == {4}

\* assertions compiled in; a build that requires GC to be inhibited, called
\* with GC enabled, and a build that does not
InitLocks ==
    /\ ndebug = FALSE
    /\ require_gc_inhibit \in BOOLEAN
    /\ lost = FALSE
    /\ StaticInitial
    /\ PageInitial
    /\ CodeInitial
    /\ gc_inhibit = [t \in Threads |-> FALSE]
    /\ ProfInitial

NextLocks ==
    \/ \E t \in Threads, total_words \in LockWords : CallAllocCodeObject(t, total_words)
    \/ \E t \in Threads : AllocLock(t)
    \/ \E t \in Threads : AllocObject(t)
    \/ \E t \in Threads : AllocUnlock(t)
    \/ \E t \in Threads : WriteHeader(t)
    \/ \E t \in Threads : WriteBoxedSize(t)
    \/ \E t \in Threads : WriteDebugInfo(t)
    \/ \E t \in Threads : WriteTrailer(t)
    \/ \E t \in Threads : CallCloseCodeRegion(t)
    \/ \E t \in Threads : CloseRegion(t)
    \/ \E t \in Threads : CloseUnlock(t)
    \/ \E data \in LockVectors : SetProfileData(data)
    \/ \E t \in Threads : CallProfilerStart(t)
    \/ \E t \in Threads : ProfStartBody(t)
    \/ \E t \in Threads : ProfStartUnlock(t)
    \/ \E t \in Threads : CallProfilerStop(t)
    \/ \E t \in Threads : ProfStopBody(t)
    \/ \E t \in Threads : ProfStopUnlock(t)

\* the next step of a thread that is inside one of the operations; where it
\* stands decides which one it is
StepInside(t) ==
    \/ AllocLock(t) \/ AllocObject(t) \/ AllocUnlock(t)
    \/ WriteHeader(t) \/ WriteBoxedSize(t) \/ WriteDebugInfo(t) \/ WriteTrailer(t)
    \/ CloseRegion(t) \/ CloseUnlock(t)
    \/ ProfStartBody(t) \/ ProfStartUnlock(t)
    \/ ProfStopBody(t) \/ ProfStopUnlock(t)

\* fair scheduling: a thread that can take its next step inside an operation
\* is not held back forever; a thread waiting for the mutex gets it if the
\* mutex stays free.  Nothing is assumed about when operations are called.
FairLocks == \A t \in Threads : WF_vars(StepInside(t))

SpecLocks == InitLocks /\ [][NextLocks]_vars /\ FairLocks

----------------------------------------------------------------------------
(* Properties of the static-space allocator, under SpecStatic. *)

Calls == 1..Len(returned)
Granted == {i \in Calls : returned[i].ptr # 0}
Aligned(n) == LowtagBits(n) = 0

\* C1: in every interleaving the successful calls return ranges
\* [ptr, ptr+nbytes) that are pairwise disjoint, and each lies inside the
\* static space, at or below STATIC_SPACE_END.
C1_RangesDisjoint ==
    /\ \A i \in Granted :
          /\ STATIC_SPACE_START <= returned[i].ptr
          /\ returned[i].nbytes >= 0
          /\ returned[i].ptr + returned[i].nbytes <= STATIC_SPACE_END
    /\ \A i, j \in Granted :
          i < j => returned[i].ptr + returned[i].nbytes <= returned[j].ptr

\* two threads raced for the frontier and both were served
C1_Witness ==
    \E i, j \in Granted :
        /\ i < j
        /\ returned[i].nbytes > 0 /\ returned[j].nbytes > 0
        /\ Aligned(returned[i].nbytes) /\ Aligned(returned[j].nbytes)
        /\ returned[j].retries > 0

\* frontier + nbytes, computed in the integers, leaves the static space or
\* the address space, or goes below the frontier
Exceeds(frontier, nbytes) ==
    \/ frontier + nbytes > STATIC_SPACE_END
    \/ frontier + nbytes < frontier
    \/ frontier + nbytes \notin 0..(AddrSpace - 1)

ColdStartScenario ==
    /\ STATIC_SPACE_END - STATIC_SPACE_START = 8192
    /\ Len(returned) >= 3
    /\ \A i \in 1..3 : returned[i].nbytes = 4096

\* C2: a call returns 0 exactly when the frontier it last saw plus nbytes
\* exceeds STATIC_SPACE_END, wraps or is below the frontier; a claim ending
\* exactly at STATIC_SPACE_END is served; three claims of 4096 bytes from a
\* cold start with 8192 bytes return base, base+4096 and 0.
C2_EmptyExactlyWhenExceeds ==
    /\ \A i \in Calls :
          (returned[i].ptr = 0) <=> Exceeds(returned[i].at, returned[i].nbytes)
    /\ ColdStartScenario =>
          /\ returned[1].ptr = STATIC_SPACE_START
          /\ returned[2].ptr = STATIC_SPACE_START + 4096
          /\ returned[3].ptr = 0

C2_Witness ==
    /\ ColdStartScenario
    /\ returned[3].ptr = 0
    /\ returned[3].at = STATIC_SPACE_END

Misaligned(t) == ~Aligned(bump[t].nbytes)

\* C3 as claimed: a call whose byte count is not lowtag-aligned returns 0
\* to its caller, without a process abort.
C3_MisalignedReturnsEmpty ==
    /\ ~lost
    /\ \A i \in Calls : ~Aligned(returned[i].nbytes) => returned[i].ptr = 0

\* C3, amended: with assertions compiled in, a call whose byte count is not
\* lowtag-aligned ends the process in gc_assert before it reads or changes
\* the frontier, and never returns; nothing else ends the process.  With
\* NDEBUG the byte count is not checked.
C3_MisalignedAborts ==
    [][ /\ \A t \in Threads :
              (bump[t].pc = "idle" /\ bump'[t].pc # "idle" /\ ~ndebug
                  /\ ~Aligned(bump'[t].nbytes))
              => /\ lost' /\ bump'[t].pc = "lost"
                 /\ static_space_free_pointer' = static_space_free_pointer
                 /\ returned' = returned
        /\ lost' => \E t \in Threads :
                        bump'[t].pc = "lost" /\ ~Aligned(bump'[t].nbytes) /\ ~ndebug
        /\ ~ndebug => \A i \in 1..Len(returned') : Aligned(returned'[i].nbytes)
      ]_vars

C3_Witness ==
    /\ lost
    /\ \E t \in Threads : bump[t].pc = "lost" /\ Misaligned(t)
    /\ static_space_free_pointer > STATIC_SPACE_START

Returns(t) == bump[t].pc \in {"check", "cas"} /\ bump'[t].pc = "idle"
LastReturned == returned'[Len(returned')]

\* C4: a call that returns 0 leaves the frontier as it was; a call that
\* returns p moved the frontier from p to p+nbytes in the one step in which
\* it returns; the frontier changes in no other step.
C4_NoPartialClaim ==
    [][ /\ \A t \in Threads : Returns(t) =>
              IF LastReturned.ptr = 0
              THEN static_space_free_pointer' = static_space_free_pointer
              ELSE /\ static_space_free_pointer = LastReturned.ptr
                   /\ static_space_free_pointer' = LastReturned.ptr + LastReturned.nbytes
        /\ static_space_free_pointer' # static_space_free_pointer =>
              \E t \in Threads : Returns(t) /\ LastReturned.ptr # 0
      ]_vars

\* a call was refused after the frontier had moved, another was served after
\* losing a race
C4_Witness ==
    /\ \E i \in Calls : returned[i].ptr = 0 /\ returned[i].at > STATIC_SPACE_START
    /\ \E i \in Granted : returned[i].nbytes > 0 /\ returned[i].retries > 0

----------------------------------------------------------------------------
(* Progress of the static-space allocator, under SpecStaticFair. *)

InLoop(t) == bump[t].pc \in {"check", "cas"}

\* a pass of the loop failed: the comparison did, and the thread goes round
Retries(t) == bump[t].pc = "cas" /\ bump'[t].pc = "check"

----------------------------------------------------------------------------
(* The frontier of the static space, under SpecStatic. *)

\* the frontier never decreases and never exceeds STATIC_SPACE_END
FrontierMonotonic ==
    /\ [](static_space_free_pointer \in STATIC_SPACE_START..STATIC_SPACE_END)
    /\ [][static_space_free_pointer' >= static_space_free_pointer]_vars

\* C19 as claimed: across every sequence and interleaving of claims, of any
\* size, zero and negative included, static_space_free_pointer never
\* decreases and never exceeds STATIC_SPACE_END, and an address handed out
\* by one call is handed out by no other call.
C19_NoAddressTwice ==
    /\ FrontierMonotonic
    /\ [](\A i, j \in Granted : i # j => returned[i].ptr # returned[j].ptr)

\* C19, amended: static_space_free_pointer never decreases and never exceeds
\* STATIC_SPACE_END; the addresses handed out never go back, and an address
\* handed out by a claim of one byte or more is handed out by no later call;
\* a claim of zero bytes returns the frontier without moving it, so the next
\* claim served gets the same address.
C19_NoAddressTwicePositive ==
    /\ FrontierMonotonic
    /\ [](\A i, j \in Granted :
              i < j => /\ returned[i].ptr <= returned[j].ptr
                       /\ returned[i].nbytes > 0 => returned[i].ptr < returned[j].ptr)

\* a claim of zero bytes was served, a claim of more was then served at the
\* same address and moved the frontier, and a negative claim was refused
C19_Witness ==
    /\ \E i \in Calls : returned[i].nbytes < 0 /\ returned[i].ptr = 0
    /\ \E i, j \in Granted :
          /\ i < j
          /\ returned[i].nbytes = 0 /\ returned[j].nbytes > 0
          /\ returned[i].ptr = returned[j].ptr
    /\ static_space_free_pointer > STATIC_SPACE_START

----------------------------------------------------------------------------
(* Properties of the scan-start codec, under SpecCodec. *)

WrittenPages == {p \in Entries : written[p] # NotWritten}

PageAligned(o) == o # 0 /\ o % GENCGC_PAGE_BYTES = 0

\* the first offset the field cannot hold: SCAN_START_OFS_MAX >> 1 pages for
\* a page-aligned offset (the maximum itself asks the reader to iterate),
\* SCAN_START_OFS_MAX words for any other
MaxSpan(o) ==
    IF PageAligned(o)
    THEN ShiftRight(SCAN_START_OFS_MAX, 1) * GENCGC_PAGE_BYTES
    ELSE SCAN_START_OFS_MAX * N_WORD_BYTES

RoundTrips(p) == page_scan_start_offset(page_table, p) = written[p]

\* C8 as claimed: for every offset o that is a multiple of the word size and
\* below the maximum representable span, storing o with
\* set_page_scan_start_offset and reading page_scan_start_offset returns o.
C8_RoundTripWordMultiples ==
    \A p \in WrittenPages :
        (written[p] % N_WORD_BYTES = 0 /\ written[p] < MaxSpan(written[p]))
        => RoundTrips(p)

\* C8, amended: for every offset o that is a multiple of two words (the
\* alignment of an object) and below the maximum representable span,
\* storing o and reading it back returns o.
C8_RoundTripDoubleWords ==
    \A p \in WrittenPages :
        (written[p] % (2 * N_WORD_BYTES) = 0 /\ written[p] < MaxSpan(written[p]))
        => RoundTrips(p)

\* a word-scaled and a page-scaled offset, each the largest of its kind,
\* were stored and read back
C8_Witness ==
    \E p, q \in WrittenPages :
        /\ written[p] = 240 /\ RoundTrips(p)
        /\ written[q] = 14 * GENCGC_PAGE_BYTES /\ RoundTrips(q)

----------------------------------------------------------------------------
(* Properties of the block boundaries, under SpecPage. *)

InteriorPagesFull ==
    \A p \in Pages \ {0} :
        ~page_starts_contiguous_block_p(page_table, p)
            => page_words_used(page_table, p - 1) = GENCGC_PAGE_WORDS

\* pages 0 and 1 full, page 2 holding 10 words, one region from page 0
ThreePageRegion ==
    /\ page_words_used(page_table, 0) = GENCGC_PAGE_WORDS
    /\ page_words_used(page_table, 1) = GENCGC_PAGE_WORDS
    /\ page_words_used(page_table, 2) = 10
    /\ GENCGC_PAGE_WORDS > 10
    /\ written[0] = 0
    /\ written[1] = GENCGC_PAGE_BYTES
    /\ written[2] = 2 * GENCGC_PAGE_BYTES

EndsBlock(p) == page_ends_contiguous_block_p(page_table, p, page_table[p].gen)

\* C10: with interior pages full, contiguous_block_final_page(first) ends
\* inside the table at the least page q >= first for which
\* page_ends_contiguous_block_p holds, having read no entry beyond q+1; for
\* the three-page region it is 2, pages 0 and 1 do not end the block, page 2
\* does.
C10_FinalPage ==
    InteriorPagesFull =>
        /\ \A first \in Pages :
              LET walk == BlockWalk(page_table, first, page_table[first].gen)
                  q == contiguous_block_final_page(page_table, first)
              IN  /\ q # OutOfTable
                  /\ q \in Pages
                  /\ q >= first
                  /\ page_ends_contiguous_block_p(page_table, q, page_table[first].gen)
                  /\ \A r \in first..(q - 1) :
                        ~page_ends_contiguous_block_p(page_table, r, page_table[first].gen)
                  /\ walk.last = q
                  /\ walk.read <= q + 1
                  /\ walk.read \in Entries
        /\ ThreePageRegion =>
              /\ page_starts_contiguous_block_p(page_table, 0)
              /\ ~page_starts_contiguous_block_p(page_table, 1)
              /\ ~page_starts_contiguous_block_p(page_table, 2)
              /\ ~EndsBlock(0)
              /\ ~EndsBlock(1)
              /\ EndsBlock(2)
              /\ contiguous_block_final_page(page_table, 0) = 2

C10_Witness ==
    /\ InteriorPagesFull
    /\ ThreePageRegion
    /\ contiguous_block_final_page(page_table, 0) = 2

----------------------------------------------------------------------------
(* Properties of the code allocator, under SpecCode. *)

Objects == 1..Len(objects)

\* the word count a reader finds in the header of a returned object
HeaderReadBack(o) ==
    IF o.code \in DOMAIN mem THEN code_header_words(mem[o.code]) ELSE OutOfTable

\* the bytes [code, code + total_words words) of two objects have a byte in common
Overlap(a, b) ==
    /\ a.total_words > 0 /\ b.total_words > 0
    /\ a.code < b.code + b.total_words * N_WORD_BYTES
    /\ b.code < a.code + a.total_words * N_WORD_BYTES

\* C5: under concurrent callers of alloc_code_object, the header of every
\* returned code object, read back at any time after the call returned, holds
\* the total_words that was requested, and no two returned objects overlap.
C5_HeadersMatchNoAlias ==
    /\ \A i \in Objects : HeaderReadBack(objects[i]) = objects[i].total_words
    /\ \A i, j \in Objects : i # j => ~Overlap(objects[i], objects[j])

GcEnabled(t) == require_gc_inhibit /\ ~gc_inhibit[t]

\* C6: where GC inhibition is required, a call of alloc_code_object by a
\* thread whose GC_INHIBIT is NIL ends in lose() at its first step, with the
\* lock, the code region, the page table and the heap as they were; such a
\* thread never gets as far as the lock, and no object is returned to it.
C6_GcEnabledIsFatal ==
    [][\A t \in Threads :
          GcEnabled(t) =>
             /\ call'[t].pc \in {"idle", "lost", "close", "close_unlock"}
             /\ (call[t].pc = "idle" /\ call'[t].pc = "lost") =>
                    /\ lost'
                    /\ UNCHANGED <<code_allocator_lock, code_region, page_table,
                                   next_free_page, mem, wild, objects>>]_vars

\* a thread with GC enabled called while another thread's object was in the
\* open region
C6_Witness ==
    /\ lost
    /\ \E t \in Threads : GcEnabled(t) /\ call[t].pc = "lost" /\ call[t].total_words > 0
    /\ Len(objects) > 0
    /\ code_region # EmptyRegion

NoPageOpen(pt) == \A p \in Entries : ~PageIsOpen(pt[p])

\* C7: close_code_region leaves the code region closed, no page carrying the
\* open-region flag, and the lock free when it returns; a call that follows
\* another with no allocation in between leaves the code region and the page
\* table as the first one left them.
C7_CloseIdempotent ==
    [][\A t \in Threads :
          /\ (call[t].pc = "close" /\ call'[t].pc = "close_unlock") =>
                /\ code_region' = EmptyRegion
                /\ NoPageOpen(page_table')
                /\ closed.run > 0 =>
                      /\ code_region' = closed.region
                      /\ page_table' = closed.page_table
          /\ (call[t].pc = "close_unlock" /\ call'[t].pc = "idle") =>
                /\ code_allocator_lock' = Unlocked
                /\ code_region' = EmptyRegion
                /\ NoPageOpen(page_table')]_vars

\* an object was allocated, then close_code_region was called twice and both
\* calls returned
C7_Witness ==
    /\ closed.run >= 2
    /\ Len(objects) > 0
    /\ \E p \in Pages : page_table[p].type = CODE_PAGE_TYPE
    /\ \A t \in Threads : call[t].pc = "idle"
    /\ code_allocator_lock = Unlocked

----------------------------------------------------------------------------
(* Properties of the allocation profiler, under SpecProf. *)

\* the places in the history where start, stop, start follow one another and
\* both starts find a metadata vector of the same length
RoundTripsAt ==
    {i \in 1..(Len(prof_log) - 2) :
        /\ prof_log[i].op = "start"
        /\ prof_log[i + 1].op = "stop"
        /\ prof_log[i + 2].op = "start"
        /\ simple_vector_p(prof_log[i].data)
        /\ prof_log[i + 2].data = prof_log[i].data}

\* the second start of a round trip reuses the buffer of the first
Reuses(first, second) ==
    /\ ~second.warned
    /\ ~second.allocated
    /\ second.buffer = first.buffer
    /\ \A th \in Threads : second.slots[th] = first.buffer

\* C11 as claimed: in any start, stop, start with the same metadata vector
\* length at both starts, the second start takes no new buffer, prints no
\* warning, leaves alloc_profile_buffer as the first start left it and sets
\* every thread's slot to it.
C11_RoundTripReuses ==
    \A i \in RoundTripsAt : Reuses(prof_log[i], prof_log[i + 2])

\* C11: the same, for a round trip whose first start found the profiler
\* stopped and so started it.  A first start that finds the profiler running
\* is a no-op and sizes no buffer, and the second start then takes the
\* replacement path if the vector's length changed while the profiler ran.
C11_RoundTripReusesStarted ==
    \A i \in RoundTripsAt :
        ~prof_log[i].noop => Reuses(prof_log[i], prof_log[i + 2])

\* a round trip over a buffer the first start allocated
C11_Witness ==
    \E i \in RoundTripsAt :
        /\ ~prof_log[i].noop /\ prof_log[i].allocated /\ prof_log[i].buffer # 0
        /\ ~prof_log[i + 1].noop
        /\ ~prof_log[i + 2].noop
        /\ alloc_profiling = 1

\* the last call in the history
LastCall == prof_log[Len(prof_log)]

\* a block of that size is in use at that address; a buffer of no cells
\* needs no block
InUse(addr, size) ==
    \/ size = 0
    \/ addr \in DOMAIN os_memory /\ os_memory[addr] = size

\* C12: after a start that leaves the profiler running, also one that found
\* an old buffer of another size, the slot of every thread holds the address
\* of a buffer that is in use and has N_WORD_BYTES times half the vector's
\* length bytes.
C12_SlotsHoldLiveBuffer ==
    (Len(prof_log) > 0 /\ LastCall.op = "start" /\ ~LastCall.noop) =>
        \A th \in Threads :
            InUse(LastCall.slots[th], N_WORD_BYTES * (vector_len(LastCall.data) \div 2))

\* what a misused call must leave alone
profState == <<alloc_profiling, alloc_profile_buffer, profile_buffer_size, profile_data>>

StartMisused == alloc_profiling # 0 \/ ~simple_vector_p(alloc_profile_data)
StopMisused == alloc_profiling = 0

\* C13: start called while the profiler runs or while alloc_profile_data is
\* not a simple vector, and stop called while it does not run, leave
\* alloc_profiling, alloc_profile_buffer, profile_buffer_size and every
\* thread's profile_data as they were, in the locked section and in the steps
\* around it, and the call releases alloc_profiler_lock when it returns.
C13_MisuseIsNoOp ==
    [][\A t \in Threads :
          /\ (prof[t] = "start" /\ prof'[t] = "start_unlock" /\ StartMisused) =>
                UNCHANGED profState
          /\ (prof[t] = "stop" /\ prof'[t] = "stop_unlock" /\ StopMisused) =>
                UNCHANGED profState
          /\ (prof[t] = "idle" /\ prof'[t] # "idle") =>
                /\ UNCHANGED profState
                /\ alloc_profiler_lock' = t
          /\ (prof[t] \in {"start_unlock", "stop_unlock"} /\ prof'[t] = "idle") =>
                /\ UNCHANGED profState
                /\ alloc_profiler_lock' = Unlocked]_vars

\* a start of a running profiler and a stop of a stopped one both returned
C13_Witness ==
    /\ \E i \in 1..Len(prof_log) :
          /\ prof_log[i].op = "start" /\ prof_log[i].noop
          /\ simple_vector_p(prof_log[i].data)
    /\ \E i \in 1..Len(prof_log) : prof_log[i].op = "stop" /\ prof_log[i].noop
    /\ \A t \in Threads : prof[t] = "idle"
    /\ alloc_profiler_lock = Unlocked
    /\ alloc_profiling = 1

\* a step of the locked section of allocation_profiler_stop
StopStep == \E t \in Threads : prof[t] = "stop" /\ prof'[t] = "stop_unlock"

\* C20: whenever alloc_profiler_lock is not held, in every interleaving of
\* start and stop calls of the threads: if alloc_profiling is 1 the slot of
\* every thread equals alloc_profile_buffer, and if alloc_profiling is 0 the
\* slot of every thread is null; a stop leaves alloc_profile_buffer and
\* profile_buffer_size as they were and gives no block back to the system.
C20_SlotsFollowFlag ==
    /\ [](alloc_profiler_lock = Unlocked =>
            /\ alloc_profiling \in {0, 1}
            /\ alloc_profiling = 1 =>
                  \A th \in Threads : profile_data[th] = alloc_profile_buffer
            /\ alloc_profiling = 0 =>
                  \A th \in Threads : profile_data[th] = 0)
    /\ [][StopStep => UNCHANGED <<alloc_profile_buffer, profile_buffer_size,
                                  os_memory>>]_vars

\* the lock is free after a stop that found the profiler running with a
\* buffer: the slots are null, the buffer and its size are still recorded
C20_Witness ==
    /\ alloc_profiler_lock = Unlocked
    /\ Len(prof_log) > 1
    /\ LastCall.op = "stop" /\ ~LastCall.noop
    /\ prof_log[Len(prof_log) - 1].op = "start" /\ ~prof_log[Len(prof_log) - 1].noop
    /\ alloc_profiling = 0
    /\ \A th \in Threads : profile_data[th] = 0
    /\ alloc_profile_buffer # 0 /\ profile_buffer_size > 0
    /\ alloc_profile_buffer \in DOMAIN os_memory

----------------------------------------------------------------------------
(* More properties of the code allocator, under SpecCode. *)

\* the word a reader of object o takes for its trailing function count
TrailerAddress(o) == WordAddress(o.code, UnsignedSub(o.total_words, 1))

\* the words alloc_code_object initializes in object o
InitializedWords(o) ==
    {WordAddress(o.code, HeaderWord), WordAddress(o.code, BoxedSizeWord),
     WordAddress(o.code, DebugInfoWord), TrailerAddress(o)}

\* C14: an object is visible to other threads from the return of
\* alloc_code_object on; in every interleaving of alloc_code_object and
\* close_code_region its header, boxed_size, debug_info and trailing count
\* word have all been written by then, and the trailing count word holds 0
\* for as long as the object is visible.
C14_InitializedWhenVisible ==
    \A i \in Objects :
        /\ InitializedWords(objects[i]) \subseteq DOMAIN mem
        /\ mem[TrailerAddress(objects[i])] = 0

\* thread t is inside lisp_alloc or ensure_region_closed on code_region
InRegionOperation(t) == call[t].pc \in {"alloc", "close"}

\* C15: at most one thread at a time executes the region operation of
\* alloc_code_object or of close_code_region, and a thread executing one
\* holds code_allocator_lock.
C15_MutualExclusion ==
    \A t \in Threads :
        InRegionOperation(t) =>
            /\ code_allocator_lock = t
            /\ \A u \in Threads \ {t} : ~InRegionOperation(u)

\* one thread is inside lisp_alloc while another thread waits for the lock in
\* alloc_code_object
C15_Witness ==
    \E t \in Threads :
        /\ call[t].pc = "alloc"
        /\ code_allocator_lock = t
        /\ \E u \in Threads \ {t} : call[u].pc = "lock"

\* the indexes of the words alloc_code_object stores through code
WrittenIndexes(total_words) ==
    {HeaderWord, BoxedSizeWord, DebugInfoWord, UnsignedSub(total_words, 1)}

\* the bytes lisp_alloc was asked for, and gave, for that many words
BytesObtained(total_words) == UnsignedMul(total_words, N_WORD_BYTES)

\* C21: for every total_words that alloc_code_object accepts, the header,
\* boxed_size, debug_info and the trailing count at word total_words-1 are
\* all stored inside the total_words words obtained from the region, and the
\* trailing count is not stored over the header, boxed_size or debug_info.
C21_StoresConfined ==
    \A i \in Objects :
        LET total_words == objects[i].total_words
        IN  /\ \A index \in WrittenIndexes(total_words) :
                  /\ index < total_words
                  /\ index * N_WORD_BYTES < BytesObtained(total_words)
            /\ UnsignedSub(total_words, 1)
                  \notin {HeaderWord, BoxedSizeWord, DebugInfoWord}

\* C22: for every value of the unsigned total_words, the byte count
\* alloc_code_object requests from the code region is total_words times the
\* word size, not that product modulo the width of `unsigned': right after
\* lisp_alloc the region's free pointer stands total_words words above the
\* object, so the space obtained is not smaller than the size in the header.
C22_BytesRequestedExact ==
    \A t \in Threads :
        call[t].pc = "unlock" =>
            /\ code_region.free_pointer - call[t].code
                  = call[t].total_words * N_WORD_BYTES
            /\ code_region.free_pointer - call[t].code
                  >= code_header_words(code_header(call[t].total_words)) * N_WORD_BYTES

----------------------------------------------------------------------------
(* The debug cross-check of the block end, under SpecPage. *)

\* the pages contiguous_block_final_page(first) asks about
WalkedPages(first) == first..contiguous_block_final_page(page_table, first)

Full(p) == page_words_used(page_table, p) = GENCGC_PAGE_WORDS

\* C17: in every page table that allocation and reclamation leave, with the
\* interior pages of regions full, the answer of
\* page_ends_contiguous_block_p (page not full, or next page starts a block)
\* equals the safe answer that also looks at next_free_page, at an empty
\* next page and at a next page of another generation: the assertion of the
\* debug build holds for every page, asked with the page's generation, and
\* for every call contiguous_block_final_page makes.
C17_CrossCheckHolds ==
    InteriorPagesFull =>
        /\ \A p \in Pages :
              page_ends_cross_check(page_table, p, page_table[p].gen, next_free_page)
        /\ \A first \in Pages : \A last \in WalkedPages(first) :
              page_ends_cross_check(page_table, last, page_table[first].gen,
                                    next_free_page)

\* a full page before a page of another generation, a full page that is the
\* last allocated one, and a full page inside a region: the first two end
\* their blocks, the third does not, and both answers agree
C17_Witness ==
    /\ InteriorPagesFull
    /\ \E p \in Pages :
          /\ Full(p) /\ p + 1 < next_free_page
          /\ page_words_used(page_table, p + 1) > 0
          /\ page_table[p + 1].gen # page_table[p].gen
          /\ EndsBlock(p)
          /\ page_ends_safe_answer(page_table, p, page_table[p].gen, next_free_page)
    /\ \E p \in Pages :
          /\ Full(p) /\ p + 1 >= next_free_page
          /\ EndsBlock(p)
          /\ page_ends_safe_answer(page_table, p, page_table[p].gen, next_free_page)
    /\ \E p \in Pages :
          /\ Full(p) /\ ~EndsBlock(p)
          /\ ~page_ends_safe_answer(page_table, p, page_table[p].gen, next_free_page)

----------------------------------------------------------------------------
(* Properties of the scan-start chain of a long region, under SpecChain. *)

\* the first page of the region: the one whose offset is 0
ChainFirstPage == CHOOSE p \in ChainWritten : written[p] = 0

\* C16: in a region that starts on a page boundary and whose every page p had
\* set_page_scan_start_offset(p, (p - start) * page size) applied,
\* page_scan_start_offset(p) returns exactly (p - start) * page size, also
\* for the pages at or beyond SCAN_START_OFS_MAX >> 1 pages from the start;
\* the backward iteration ends and reads no entry below the first page.
C16_ChainReadsExact ==
    \A p \in ChainWritten :
        /\ written[p] = (p - ChainFirstPage) * GENCGC_PAGE_BYTES
        /\ page_scan_start_offset(page_table, p) = written[p]
        /\ page_scan_start_offset_reads(page_table, p) \subseteq ChainFirstPage..p

\* a page two clamp distances from the start was read through three entries,
\* over pages whose entries held the clamp value before the region was opened
C16_Witness ==
    \E p \in ChainWritten :
        /\ written[p] = 2 * ShiftRight(SCAN_START_OFS_MAX, 1) * GENCGC_PAGE_BYTES
        /\ ChainFirstPage > 0
        /\ page_table[ChainFirstPage - 1].scan_start_offset_ = SCAN_START_OFS_MAX
        /\ page_table[p].scan_start_offset_ = SCAN_START_OFS_MAX
        /\ Cardinality(page_scan_start_offset_reads(page_table, p)) = 3
        /\ page_scan_start_offset(page_table, p) = written[p]

----------------------------------------------------------------------------
(* Lock discipline and progress, under SpecLocks. *)

\* the thread is past the locked section of alloc_code_object, or not in it
\* yet, or in none of the operations
OutsideLockedSections(t) ==
    /\ call[t].pc \in {"idle", "lock", "header", "boxed_size", "debug_info", "trailer"}
    /\ prof[t] = "idle"

LockDiscipline ==
    \A t \in Threads :
        /\ OutsideLockedSections(t) =>
              code_allocator_lock # t /\ alloc_profiler_lock # t
        /\ ~(code_allocator_lock = t /\ alloc_profiler_lock = t)

\* C23 as claimed: every path through the four operations that acquires a
\* lock has released it when it returns, no thread holds code_allocator_lock
\* and alloc_profiler_lock at once, and under fair scheduling every thread
\* that calls one of the operations returns.
C23_EveryCallReturns ==
    /\ []LockDiscipline
    /\ \A t \in Threads : ~Outside(t) ~> Outside(t)

\* C23, amended: the lock discipline as claimed; under fair scheduling every
\* thread that calls one of the operations returns unless the process is
\* ended by lose() (alloc_code_object called with GC enabled where it must
\* be inhibited, the heap exhausted, a failed assertion, a faulting store),
\* and every lock taken is released unless the process is ended.
C23_EveryCallReturnsOrLoses ==
    /\ []LockDiscipline
    /\ \A t \in Threads : ~Outside(t) ~> (Outside(t) \/ lost)
    /\ \A t \in Threads : (code_allocator_lock = t) ~> (code_allocator_lock # t \/ lost)
    /\ \A t \in Threads : (alloc_profiler_lock = t) ~> (alloc_profiler_lock # t \/ lost)

\* one thread is inside lisp_alloc holding code_allocator_lock while another
\* holds alloc_profiler_lock, after a call of alloc_code_object has returned
C23_Witness ==
    \E t, u \in Threads :
        /\ t # u
        /\ code_allocator_lock = t /\ call[t].pc = "alloc"
        /\ alloc_profiler_lock = u /\ prof[u] # "idle"
        /\ Len(objects) > 0

====
